---- MODULE Spec2Model ----
(***************************************************************************)
(* Model of scripts/utils.js: trimElementTextToCharLimit (a recursive walk *)
(* over a DOM subtree with one shared counter) and getNewElem.             *)
(*                                                                         *)
(* A DOM is a record of functions over node ids.  Node 0 is the host       *)
(* parent of the root (when the root is attached), node 1 is the root      *)
(* handed to trimElementTextToCharLimit, and ids follow document order of  *)
(* the input tree.  A string is a sequence of one-character strings.       *)
(***************************************************************************)
EXTENDS Integers, Sequences, FiniteSets, TLC

\* ---------------------------------------------------------------- bounds
MaxNodes == 3
MaxTextLen == 2
MaxLimit == 3

\* ------------------------------------------------------------- DOM basics
Host == 0
Root == 1
NoParent == -1

TEXT_NODE == "TEXT_NODE"
ELEMENT_NODE == "ELEMENT_NODE"
COMMENT_NODE == "COMMENT_NODE"

Chars == {"a", " "}
Whitespace == {" "}

Strings == UNION {[1..k -> Chars] : k \in 0..MaxTextLen}

\* /\S/.test(s)
HasNonSpace(s) == \E i \in 1..Len(s) : s[i] \notin Whitespace

\* String.prototype.slice(0, end): a negative end counts from the end of s.
Slice0(s, end) ==
  LET e == IF end < 0 THEN (IF Len(s) + end < 0 THEN 0 ELSE Len(s) + end)
           ELSE (IF end > Len(s) THEN Len(s) ELSE end)
  IN SubSeq(s, 1, e)

\* ChildNode.remove(): detaches n from its parent; no effect without a parent.
Remove(d, n) ==
  LET p == d.parentNode[n] IN
  IF p = NoParent THEN d
  ELSE [d EXCEPT !.parentNode[n] = NoParent,
                 !.childNodes[p] = SelectSeq(@, LAMBDA c : c # n)]

RECURSIVE RemoveEach(_, _)
\* siblings.forEach((sibling) => sibling.remove())
RemoveEach(d, siblings) ==
  IF siblings = <<>> THEN d
  ELSE RemoveEach(Remove(d, Head(siblings)), Tail(siblings))

\* ------------------------------------------- trimElementTextToCharLimit
\* A walk state s is [dom, count, skipped]: the tree, the shared counter and
\* the children the loop's pre-visit check has passed over.

\* mutant: const text = node.textContent, whitespace-only text counted too
EffectiveTextAny(textContent) == textContent

\* const text = /\S/.test(node.textContent) ? node.textContent : ''
EffectiveText(textContent) ==
  IF HasNonSpace(textContent) THEN textContent ELSE <<>>

\* mutant: text.slice(0, limit), the characters already counted forgotten
TruncateToLimit(text, count, limit) == Slice0(text, limit)

\* mutant: text.slice(limit - count), the remainder kept instead of the prefix
TruncateTail(text, count, limit) ==
  SubSeq(text, (limit - count) + 1, Len(text))

\* text.slice(0, limit - count)
Truncate(text, count, limit) == Slice0(text, limit - count)

\* mutant: if (count > limit)
LimitReachedStrict(count, limit) == count > limit

\* if (count >= limit) at the top of trimNode
LimitReached(count, limit) == count >= limit

\* if (count >= limit) before a child is visited
StopBeforeChild(count, limit) == count >= limit

\* mutant: if (count > limit)
StopAfterChildStrict(count, limit) == count > limit

\* mutant: if (count <= limit), the comparison flipped
StopAfterChildFlipped(count, limit) == count <= limit

\* if (count >= limit) after a child was visited
StopAfterChild(count, limit) == count >= limit

\* mutant: the counter advanced only when the text was not truncated
trimTextSkipTruncated(s, node, limit) ==
  LET text == EffectiveText(s.dom.textContent[node])
  IN IF s.count + Len(text) > limit
     THEN [s EXCEPT !.dom.textContent[node] = Truncate(text, s.count, limit)]
     ELSE [s EXCEPT !.count = s.count + Len(text)]

\* the TEXT_NODE branch of trimNode
trimText(s, node, limit) ==
  LET text == EffectiveText(s.dom.textContent[node])
      d1 == IF s.count + Len(text) > limit
            THEN [s.dom EXCEPT !.textContent[node] = Truncate(text, s.count, limit)]
            ELSE s.dom
  IN [s EXCEPT !.dom = d1, !.count = s.count + Len(text)]

RECURSIVE trimNode(_, _, _)
RECURSIVE someChild(_, _, _, _)

trimNode(s, node, limit) ==
  IF LimitReached(s.count, limit)
  THEN [s EXCEPT !.dom = Remove(s.dom, node)]
  ELSE IF s.dom.nodeType[node] = TEXT_NODE
  THEN trimText(s, node, limit)
  ELSE IF s.dom.nodeType[node] = ELEMENT_NODE
  THEN someChild(s, s.dom.childNodes[node], 1, limit)
  ELSE s

\* children.some((child, index) => ...) from position index (1-based) on
someChild(s, children, index, limit) ==
  IF index > Len(children) THEN s
  ELSE IF StopBeforeChild(s.count, limit)
  THEN [s EXCEPT !.skipped =
          @ \cup {children[j] : j \in index..Len(children)}]
  ELSE LET s1 == trimNode(s, children[index], limit) IN
       IF StopAfterChild(s1.count, limit)
       THEN [s1 EXCEPT !.dom =
               RemoveEach(@, SubSeq(children, index + 1, Len(children)))]
       ELSE someChild(s1, children, index + 1, limit)

trimElementTextToCharLimit(d, limit) ==
  trimNode([dom |-> d, count |-> 0, skipped |-> {}], Root, limit)

\* ----------------------------------------------------------- getNewElem
MaxArgs == 2

\* JavaScript values the function handles, as records of one shape
Val(kind, of, depth) == [kind |-> kind, of |-> of, depth |-> depth]
JsNull == Val("null", 0, 0)
JsUndefined == Val("undefined", 0, 0)
\* args[0].parentElement
BlockDivElm == Val("parentElement", 1, 0)
\* what the callback returns
CallbackResult == Val("callbackResult", 0, 0)
\* depth 1: args[i].children[0]; depth 2: args[i].children[0].children[0]
ElementAt(i, depth) == Val("element", i, depth)

\* An argument element divElm is [hasText, hasPicture, depth]: whether
\* textContent.trim() !== '', whether querySelector('picture') finds one, and
\* how far the chain children[0], children[0].children[0] exists (0, 1 or 2).
DivElms ==
  {e \in [hasText : BOOLEAN, hasPicture : BOOLEAN, depth : 0..2] :
     e.hasPicture => e.depth >= 1}

\* divElm.textContent.trim() !== '' || divElm.querySelector('picture')
NonEmpty(divElm) == divElm.hasText \/ divElm.hasPicture

\* isItem ? divElm.children[0] : divElm.children[0].children[0]
\* (reading .children of an undefined children[0] throws a TypeError)
TargetThrows(divElm, isItem) == ~isItem /\ divElm.depth = 0
TargetDiv(i, divElm, isItem) ==
  IF isItem
  THEN (IF divElm.depth >= 1 THEN ElementAt(i, 1) ELSE JsUndefined)
  ELSE (IF divElm.depth >= 2 THEN ElementAt(i, 2) ELSE JsUndefined)

\* getNewElem(...args, callback): args are the elements before the callback;
\* the result is how the call ends, its value and the callback's invocations.
getNewElem(args, hasParent, isItem) ==
  IF Len(args) = 0 \/ ~hasParent
  THEN [outcome |-> "return", value |-> JsNull, calls |-> <<>>]
  ELSE
    LET fieldElements ==
          [i \in 1..Len(args) |->
             IF NonEmpty(args[i]) THEN TargetDiv(i, args[i], isItem) ELSE JsNull]
          \o <<BlockDivElm>>
        allNulls == \A i \in 1..Len(args) : ~NonEmpty(args[i])
    IN IF \E i \in 1..Len(args) :
            NonEmpty(args[i]) /\ TargetThrows(args[i], isItem)
       THEN [outcome |-> "throw", value |-> Val("TypeError", 0, 0), calls |-> <<>>]
       ELSE IF allNulls
       THEN [outcome |-> "return", value |-> JsNull, calls |-> <<>>]
       ELSE [outcome |-> "return", value |-> CallbackResult,
             calls |-> <<fieldElements>>]

\* ----------------------------------------------------------- input trees
RECURSIVE AncestorsOrSelf(_, _)
AncestorsOrSelf(par, n) ==
  IF n = Root THEN {Root} ELSE {n} \cup AncestorsOrSelf(par, par[n])

\* parent maps under which the ids 1..k are in document order
ParentMaps(k) ==
  {par \in [2..k -> 1..k] :
     \A n \in 2..k : par[n] < n /\ par[n] \in AncestorsOrSelf(par, n - 1)}

MakeDom(k, par, type, text, attached) ==
  LET pn == [n \in 0..k |->
               IF n = Host THEN NoParent
               ELSE IF n = Root THEN (IF attached THEN Host ELSE NoParent)
               ELSE par[n]]
  IN [nodeType |-> [n \in 0..k |-> IF n = Host THEN ELEMENT_NODE ELSE type[n]],
      parentNode |-> pn,
      childNodes |-> [n \in 0..k |->
                        SelectSeq([i \in 1..k |-> i], LAMBDA c : pn[c] = n)],
      textContent |-> [n \in 0..k |-> IF n = Host THEN <<>> ELSE text[n]]]

NodeTypes(k, par) ==
  {ty \in [1..k -> {TEXT_NODE, ELEMENT_NODE, COMMENT_NODE}] :
     \A n \in 2..k : ty[par[n]] = ELEMENT_NODE}

\* only text nodes carry a string payload in the model
TextContents(k, type) ==
  {tx \in [1..k -> Strings] :
     \A n \in 1..k : type[n] # TEXT_NODE => tx[n] = <<>>}

\* the input DOMs: every tree of 1..MaxNodes nodes, attached to a host or not
IsInputDom(d) ==
  \E k \in 1..MaxNodes : \E par \in ParentMaps(k) :
    \E type \in NodeTypes(k, par) : \E text \in TextContents(k, type) :
      \E attached \in BOOLEAN : d = MakeDom(k, par, type, text, attached)

Limits == -1..MaxLimit

\* ------------------------------------------------------------ state
VARIABLES
  dom,      \* the DOM as it is now
  limit,    \* the limit argument of the calls
  phase,    \* "ready", "once" (after one call), "twice" (after a second call)
  dom0,     \* the DOM before the first call
  dom1,     \* the DOM after the first call
  count,    \* the counter's value when the last call returned
  skipped,  \* children passed over by the pre-visit check of the last call
  gneArgs,      \* the elements passed to getNewElem
  gneHasParent, \* whether the first of them has a parent element
  gneIsItem,    \* whether that parent has no data-block-name
  gneResult     \* how the call to getNewElem ended; NotCalled before it

vars == <<dom, limit, phase, dom0, dom1, count, skipped,
          gneArgs, gneHasParent, gneIsItem, gneResult>>

NotCalled == [outcome |-> "none", value |-> JsUndefined, calls |-> <<>>]

GneIdle ==
  /\ gneArgs = <<>>
  /\ gneHasParent = FALSE
  /\ gneIsItem = FALSE
  /\ gneResult = NotCalled

Init ==
  /\ IsInputDom(dom)
  /\ limit \in Limits
  /\ phase = "ready"
  /\ dom0 = dom
  /\ dom1 = dom
  /\ count = 0
  /\ skipped = {}
  /\ GneIdle

\* trimElementTextToCharLimit(root, limit)
Trim ==
  /\ phase = "ready"
  /\ LET r == trimElementTextToCharLimit(dom, limit) IN
       /\ dom' = r.dom
       /\ dom1' = r.dom
       /\ count' = r.count
       /\ skipped' = r.skipped
  /\ phase' = "once"
  /\ UNCHANGED <<limit, dom0, gneArgs, gneHasParent, gneIsItem, gneResult>>

\* trimElementTextToCharLimit(root, limit) again, on the result
TrimAgain ==
  /\ phase = "once"
  /\ LET r == trimElementTextToCharLimit(dom, limit) IN
       /\ dom' = r.dom
       /\ count' = r.count
       /\ skipped' = r.skipped
  /\ phase' = "twice"
  /\ UNCHANGED <<limit, dom0, dom1, gneArgs, gneHasParent, gneIsItem, gneResult>>

Next == Trim \/ TrimAgain

Spec == Init /\ [][Next]_vars

\* ---- getNewElem on its own: the DOM of the trimming walk stays a lone node
InitGetNewElem ==
  /\ dom = MakeDom(1, <<>>, <<ELEMENT_NODE>>, <<<<>>>>, FALSE)
  /\ limit = 0
  /\ phase = "ready"
  /\ dom0 = dom
  /\ dom1 = dom
  /\ count = 0
  /\ skipped = {}
  /\ gneArgs \in UNION {[1..n -> DivElms] : n \in 0..MaxArgs}
  /\ gneHasParent \in BOOLEAN
  /\ gneIsItem \in BOOLEAN
  /\ gneResult = NotCalled

\* getNewElem(e1, ..., en, callback)
GetNewElem ==
  /\ gneResult = NotCalled
  /\ gneResult' = getNewElem(gneArgs, gneHasParent, gneIsItem)
  /\ UNCHANGED <<dom, limit, phase, dom0, dom1, count, skipped,
                 gneArgs, gneHasParent, gneIsItem>>

NextGetNewElem == GetNewElem

SpecGetNewElem == InitGetNewElem /\ [][NextGetNewElem]_vars

\* ------------------------------------------------- vocabulary of the claims
RECURSIVE Subtree(_, _)
RECURSIVE SubtreesOf(_, _)
\* the nodes of n's subtree in document order
Subtree(d, n) == <<n>> \o SubtreesOf(d, d.childNodes[n])
SubtreesOf(d, ns) ==
  IF ns = <<>> THEN <<>> ELSE Subtree(d, Head(ns)) \o SubtreesOf(d, Tail(ns))

DocOrder(d) == Subtree(d, Root)
TreeNodes(d) == {DocOrder(d)[i] : i \in 1..Len(DocOrder(d))}
TextNodes(d) == {n \in TreeNodes(d) : d.nodeType[n] = TEXT_NODE}

IsBlank(t) == \A i \in 1..Len(t) : t[i] = " "
IsPrefix(t, u) == Len(t) <= Len(u) /\ \A i \in 1..Len(t) : t[i] = u[i]
\* a text node's length if it has a non-whitespace character, else zero
EffLen(t) == IF IsBlank(t) THEN 0 ELSE Len(t)

RECURSIVE Sum(_, _)
Sum(f, S) == IF S = {} THEN 0
             ELSE LET x == CHOOSE y \in S : TRUE IN f[x] + Sum(f, S \ {x})

TotalEffective(d) == Sum([n \in TextNodes(d) |-> EffLen(d.textContent[n])], TextNodes(d))

Done == phase = "once"
WasAttached == dom0.parentNode[Root] = Host
RootDetached == WasAttached /\ dom.parentNode[Root] # Host
\* the nodes still in the tree after the call
Retained == IF RootDetached THEN {} ELSE TreeNodes(dom)
RetainedText == {n \in Retained : dom.nodeType[n] = TEXT_NODE}
Truncated(n) == dom.textContent[n] # dom0.textContent[n]

\* the sum of the effective lengths of the text nodes before position i
CountBefore(i) ==
  LET o == DocOrder(dom0)
      S == {o[j] : j \in 1..(i - 1)} \cap TextNodes(dom0)
  IN Sum([n \in S |-> EffLen(dom0.textContent[n])], S)

\* the text node at position i of the document order is where the budget is crossed
Crossing(i) ==
  LET T == DocOrder(dom0)[i] IN
  /\ dom0.nodeType[T] = TEXT_NODE
  /\ ~IsBlank(dom0.textContent[T])
  /\ CountBefore(i) < limit
  /\ CountBefore(i) + Len(dom0.textContent[T]) >= limit

\* the call only detached the root from its host
OnlyRootDetached ==
  /\ dom.parentNode = [dom0.parentNode EXCEPT ![Root] = NoParent]
  /\ dom.childNodes = [dom0.childNodes EXCEPT ![Host] = <<>>]
  /\ dom.textContent = dom0.textContent
  /\ dom.nodeType = dom0.nodeType

C2_NoOpAtOrAboveTotal ==
  (Done /\ limit >= TotalEffective(dom0)) => dom = dom0

\* C2 (amended): if limit > the total effective text length, the call leaves
\* the tree unchanged: no node removed, root still attached, no text altered.
C2_NoOpAboveTotal ==
  (Done /\ limit > TotalEffective(dom0)) => dom = dom0

C2_Witness ==
  /\ Done /\ limit > TotalEffective(dom0) /\ TotalEffective(dom0) >= 1
  /\ \E n \in TextNodes(dom0) : IsBlank(dom0.textContent[n]) /\ Len(dom0.textContent[n]) > 0
  /\ dom = dom0

\* ------------------------------------------------------------------ C3
\* C3 (as stated): a tree whose text nodes are all whitespace-only (or that has
\* no text) is left unchanged for every limit >= 0, and with limit = 0 the
\* root is detached only if the tree has non-whitespace text.
C3_WhitespaceNeverPruned ==
  /\ (Done /\ limit >= 0 /\ TotalEffective(dom0) = 0) => dom = dom0
  /\ (Done /\ limit = 0 /\ RootDetached) => TotalEffective(dom0) > 0

\* C3 (amended): a tree whose text nodes are all whitespace-only (or that has
\* no text) is left unchanged for every limit >= 1; with limit = 0 the call
\* detaches the root from its parent whatever the tree contains, and changes
\* nothing below the root.
C3_WhitespaceKeptAboveZero ==
  /\ (Done /\ limit >= 1 /\ TotalEffective(dom0) = 0) => dom = dom0
  /\ (Done /\ limit = 0) => OnlyRootDetached

C3_Witness ==
  /\ Done /\ limit >= 1 /\ TotalEffective(dom0) = 0
  /\ \E n \in TextNodes(dom0) : Len(dom0.textContent[n]) > limit
  /\ dom = dom0

\* ------------------------------------------------------------------ C4
\* C4: for every limit < 0 the call leaves the tree unchanged (the function
\* has no way to signal an invalid argument).
C4_NegativeLimitRejected ==
  (Done /\ limit < 0) => dom = dom0

\* ------------------------------------------------------------------ C5
\* C5: the call only removes nodes and shortens text to a prefix: every
\* retained node keeps its parent and its kind, retained nodes keep their
\* relative document order, and every retained text is a prefix of the original.
C5_OrderAndNesting ==
  Done =>
    /\ Retained \subseteq TreeNodes(dom0)
    /\ \A n \in Retained :
         /\ dom.parentNode[n] = dom0.parentNode[n]
         /\ dom.nodeType[n] = dom0.nodeType[n]
         /\ IsPrefix(dom.textContent[n], dom0.textContent[n])
    /\ \A i, j \in 1..Len(DocOrder(dom)) :
         i < j =>
           \E a, b \in 1..Len(DocOrder(dom0)) :
             /\ a < b
             /\ DocOrder(dom0)[a] = DocOrder(dom)[i]
             /\ DocOrder(dom0)[b] = DocOrder(dom)[j]

C5_Witness ==
  /\ Done
  /\ Cardinality(RetainedText) >= 2
  /\ \E n \in RetainedText : Truncated(n) /\ Len(dom.textContent[n]) > 0

\* ------------------------------------------------------------------ C6
\* C6: with at least one non-empty element (and a parent of the first), the
\* call returns the callback's result after invoking the callback exactly
\* once with n+1 arguments: the target child of each non-empty element, null
\* for each empty one, and the parent element last; when the first element
\* has no parent or every element is empty, the callback is not invoked and
\* the call returns undefined.
C6_GetNewElem ==
  (gneResult # NotCalled /\ Len(gneArgs) >= 1) =>
    LET n == Len(gneArgs)
        expected ==
          [i \in 1..n |->
             IF NonEmpty(gneArgs[i])
             THEN ElementAt(i, IF gneIsItem THEN 1 ELSE 2)
             ELSE JsNull] \o <<BlockDivElm>>
    IN IF n > 0 /\ gneHasParent /\ \E i \in 1..n : NonEmpty(gneArgs[i])
       THEN /\ gneResult.outcome = "return"
            /\ gneResult.value = CallbackResult
            /\ gneResult.calls = <<expected>>
       ELSE /\ gneResult.outcome = "return"
            /\ gneResult.value = JsUndefined
            /\ gneResult.calls = <<>>

\* ------------------------------------------------------------------ C7
\* C7: when the walk reaches a non-whitespace text node T with count < limit
\* and count + length(T) >= limit, then after the call T holds exactly the
\* first limit - count characters of its original content (a non-empty
\* prefix), every node after T in document order is out of the tree, and T,
\* its ancestors and every node before T are retained unaltered.
C7_CrossingNode ==
  Done =>
    \A i \in 1..Len(DocOrder(dom0)) :
      Crossing(i) =>
        LET o == DocOrder(dom0)
            T == o[i]
            keep == limit - CountBefore(i)
        IN /\ dom.textContent[T] = SubSeq(dom0.textContent[T], 1, keep)
           /\ Len(dom.textContent[T]) = keep
           /\ keep >= 1
           /\ ~RootDetached
           /\ \A j \in 1..Len(o) : j > i => o[j] \notin TreeNodes(dom)
           /\ \A j \in 1..Len(o) :
                j <= i => /\ o[j] \in TreeNodes(dom)
                          /\ dom.parentNode[o[j]] = dom0.parentNode[o[j]]
                          /\ (j < i => dom.textContent[o[j]] = dom0.textContent[o[j]])

C7_Witness ==
  /\ Done
  /\ \E i \in 1..Len(DocOrder(dom0)) :
       /\ Crossing(i)
       /\ i < Len(DocOrder(dom0))
       /\ Truncated(DocOrder(dom0)[i])

\* ------------------------------------------------------------------ C8
\* The variant of the walk that advances the counter only by the characters
\* actually kept in a text node.
trimTextKept(s, node, lim) ==
  LET text == EffectiveText(s.dom.textContent[node])
      kept == IF s.count + Len(text) > lim
              THEN Truncate(text, s.count, lim) ELSE text
  IN [s EXCEPT !.dom.textContent[node] =
                  IF s.count + Len(text) > lim THEN kept ELSE @,
               !.count = s.count + Len(kept)]

RECURSIVE trimNodeKept(_, _, _)
RECURSIVE someChildKept(_, _, _, _)

trimNodeKept(s, node, lim) ==
  IF LimitReached(s.count, lim)
  THEN [s EXCEPT !.dom = Remove(s.dom, node)]
  ELSE IF s.dom.nodeType[node] = TEXT_NODE
  THEN trimTextKept(s, node, lim)
  ELSE IF s.dom.nodeType[node] = ELEMENT_NODE
  THEN someChildKept(s, s.dom.childNodes[node], 1, lim)
  ELSE s

someChildKept(s, children, index, lim) ==
  IF index > Len(children) THEN s
  ELSE IF StopBeforeChild(s.count, lim)
  THEN [s EXCEPT !.skipped =
          @ \cup {children[j] : j \in index..Len(children)}]
  ELSE LET s1 == trimNodeKept(s, children[index], lim) IN
       IF StopAfterChild(s1.count, lim)
       THEN [s1 EXCEPT !.dom =
               RemoveEach(@, SubSeq(children, index + 1, Len(children)))]
       ELSE someChildKept(s1, children, index + 1, lim)

trimKept(d, lim) ==
  trimNodeKept([dom |-> d, count |-> 0, skipped |-> {}], Root, lim)

\* C8 (as stated): the counter advances by a text node's full effective length,
\* and there is some tree and limit for which the variant that advances it by
\* the characters kept yields a different tree.
C8_AccountingObservable ==
  \E k \in 1..MaxNodes : \E par \in ParentMaps(k) :
    \E type \in NodeTypes(k, par) : \E text \in TextContents(k, type) :
      \E attached \in BOOLEAN : \E lim \in Limits :
        LET d == MakeDom(k, par, type, text, attached)
        IN trimElementTextToCharLimit(d, lim).dom # trimKept(d, lim).dom

\* C8 (amended): the counter advances by the full effective length, measured
\* before truncation, of every text node the walk keeps (so it may exceed
\* limit after a truncation), but the accounting is not observable: for every
\* tree and limit the variant that advances the counter by the characters
\* kept yields the same tree.
C8_AccountingNotObservable ==
  Done =>
    /\ dom = trimKept(dom0, limit).dom
    /\ limit >= 1 =>
         count = Sum([n \in TextNodes(dom) |-> EffLen(dom0.textContent[n])],
                     TextNodes(dom))

C8_Witness ==
  /\ Done /\ limit >= 1 /\ count > limit
  /\ trimKept(dom0, limit).count = limit
  /\ \E n \in TextNodes(dom) : Truncated(n)

\* ------------------------------------------------------------------ C9
\* C9: the pre-visit check at the top of the child loop is never true in any
\* execution, so no child is passed over by it and left in the tree.
C9_PreVisitCheckNeverTrue == skipped = {}

C9_Witness ==
  /\ Done
  /\ dom0.nodeType[Root] = ELEMENT_NODE
  /\ Len(dom0.childNodes[Root]) >= 2
  /\ 0 < count /\ count < limit

\* ------------------------------------------------------------------ C10
\* C10: a second call with the same limit on the result of the first changes
\* nothing further.
C10_Idempotent == (phase = "twice") => dom = dom1

C10_Witness ==
  /\ phase = "twice"
  /\ \E n \in TextNodes(dom1) :
       /\ dom1.textContent[n] # dom0.textContent[n]
       /\ Len(dom1.textContent[n]) > 0
       /\ IsBlank(dom1.textContent[n])

====
